---- MODULE Spec2Model ----
(***************************************************************************)
(* QR code generator (jwtor7/QR): the useQRCodeGenerator hook and the      *)
(* part of the QRCodeGenerator view that mounts the QR container.          *)
(*                                                                         *)
(* Strings are sequences of one-character strings, so that trim,           *)
(* startsWith and template concatenation are computed as the code does.    *)
(***************************************************************************)
EXTENDS Integers, Sequences, FiniteSets, TLC

\* ------------------------------------------------------------- bounds
\* User operations (edits, clicks, uploads) in one behaviour.
MaxEdits == 3
\* Saturation point of the observer counters (script loads, B requests).
MaxCount == 2
\* Length of the generated tails of the formatUrl inputs.
MaxTail == 2
\* Length of the generated filename inputs.
MaxName == 3
\* Clicks on the download button in one behaviour.
MaxDownloads == 2
\* Largest side, in pixels, of the square canvases the overlay geometry is
\* computed for.
MaxSide == 400
\* Clicks on the two copy buttons in one behaviour.
MaxCopies == 2
\* Steps of the clock observed after mounting.
MaxTicks == 4

VARIABLES
    activeTab, urlInput, textInput, contactInfo, qrData,
    foregroundColor, backgroundColor, foregroundHex, backgroundHex,
    centerImage, centerImageFile, readers,
    customFilename, addTimestamp, copied, downloads,
    copiedImage, copyTimeoutRef, copyImageTimeoutRef, timers, timerIds,
    writes, clock, alive, copiedAt, loggedAt, copyCalls, writeCalls,
    copyRejections,
    filenamePreview, timestampedFilenamePreview, wallClock,
    mounted, attempts, QRious, scriptLoads,
    edits, phase, fx, fy, fz

formVars == <<activeTab, urlInput, textInput, contactInfo>>
colorVars == <<foregroundColor, backgroundColor, foregroundHex, backgroundHex>>
imageVars == <<centerImage, centerImageFile, readers>>
timerVars == <<copyTimeoutRef, copyImageTimeoutRef, timers, timerIds, writes,
               clock, alive, copiedAt, loggedAt, copyCalls, writeCalls,
               copyRejections>>
clipVars == <<copiedImage, timerVars>>
previewVars == <<filenamePreview, timestampedFilenamePreview, wallClock>>
exportVars == <<customFilename, addTimestamp, copied, downloads, clipVars, previewVars>>
renderVars == <<mounted, attempts, QRious, scriptLoads>>
pureVars == <<phase, fx, fy, fz>>
vars == <<edits, formVars, qrData, colorVars, imageVars, exportVars, renderVars, pureVars>>

\* ------------------------------------------------------------ strings
Str_https == <<"h", "t", "t", "p", "s", ":", "/", "/">>
Str_http == <<"h", "t", "t", "p", ":", "/", "/">>
LF == <<"\n">>
\* Color values: '#000000' and '#ffffff' are the initial colors.
Color_000000 == <<"#", "0", "0", "0", "0", "0", "0">>
Color_ffffff == <<"#", "f", "f", "f", "f", "f", "f">>
Color_ff0000 == <<"#", "f", "f", "0", "0", "0", "0">>
Color_0000ff == <<"#", "0", "0", "0", "0", "f", "f">>
Whitespace == {" ", "\t", "\n"}

\* String.prototype.trim
RECURSIVE TrimLeft(_)
TrimLeft(s) ==
    IF s # <<>> /\ Head(s) \in Whitespace THEN TrimLeft(Tail(s)) ELSE s

RECURSIVE TrimRight(_)
TrimRight(s) ==
    IF s # <<>> /\ s[Len(s)] \in Whitespace
    THEN TrimRight(SubSeq(s, 1, Len(s) - 1))
    ELSE s

trim(s) == TrimRight(TrimLeft(s))

\* String.prototype.startsWith
startsWith(s, p) == Len(s) >= Len(p) /\ SubSeq(s, 1, Len(p)) = p

\* ---------------------------------------------------- payload encoder
DEFAULT_FILENAME == <<"q", "r", "-", "c", "o", "d", "e">>

initialContactInfo ==
    [firstName |-> <<>>, lastName |-> <<>>, phone |-> <<>>,
     email |-> <<>>, organization |-> <<>>, url |-> <<>>]

ContactFields == {"firstName", "lastName", "phone", "email", "organization", "url"}

formatUrl_OnlyHttps(url) ==
    IF trim(url) = <<>> THEN <<>>
    ELSE IF ~startsWith(url, Str_https) THEN Str_https \o url
    ELSE url

formatUrl_NoTrim(url) ==
    IF url = <<>> THEN <<>>
    ELSE IF ~startsWith(url, Str_http) /\ ~startsWith(url, Str_https)
         THEN Str_https \o url
    ELSE url

formatUrl(url) ==
    IF trim(url) = <<>> THEN <<>>
    ELSE IF ~startsWith(url, Str_http) /\ ~startsWith(url, Str_https)
         THEN Str_https \o url
    ELSE url

Str_BEGIN == <<"B", "E", "G", "I", "N", ":", "V", "C", "A", "R", "D">>
Str_VERSION == <<"V", "E", "R", "S", "I", "O", "N", ":", "3", ".", "0">>
Str_FN == <<"F", "N", ":">>
Str_N == <<"N", ":">>
Str_ORG == <<"O", "R", "G", ":">>
Str_TEL == <<"T", "E", "L", ":">>
Str_EMAIL == <<"E", "M", "A", "I", "L", ":">>
Str_URL == <<"U", "R", "L", ":">>
Str_END == <<"E", "N", "D", ":", "V", "C", "A", "R", "D">>

generateVCard_TelBeforeOrg(contact) ==
    Str_BEGIN \o LF \o Str_VERSION \o LF
    \o Str_FN \o contact.firstName \o <<" ">> \o contact.lastName \o LF
    \o Str_N \o contact.lastName \o <<";">> \o contact.firstName \o <<";", ";", ";">> \o LF
    \o Str_TEL \o contact.phone \o LF
    \o Str_ORG \o contact.organization \o LF
    \o Str_EMAIL \o contact.email \o LF
    \o Str_URL \o contact.url \o LF
    \o Str_END

generateVCard(contact) ==
    Str_BEGIN \o LF \o Str_VERSION \o LF
    \o Str_FN \o contact.firstName \o <<" ">> \o contact.lastName \o LF
    \o Str_N \o contact.lastName \o <<";">> \o contact.firstName \o <<";", ";", ";">> \o LF
    \o Str_ORG \o contact.organization \o LF
    \o Str_TEL \o contact.phone \o LF
    \o Str_EMAIL \o contact.email \o LF
    \o Str_URL \o contact.url \o LF
    \o Str_END

\* The contact case of the effect: the four fields that gate the vCard.
ContactFilled_WithOrganization(contact) ==
    \/ contact.firstName # <<>>
    \/ contact.lastName # <<>>
    \/ contact.phone # <<>>
    \/ contact.email # <<>>
    \/ contact.organization # <<>>

ContactFilled(contact) ==
    \/ contact.firstName # <<>>
    \/ contact.lastName # <<>>
    \/ contact.phone # <<>>
    \/ contact.email # <<>>

\* The switch of the recompute effect.
ComputePayload(tab, url, text, contact) ==
    CASE tab = "url" -> formatUrl(url)
      [] tab = "text" -> text
      [] tab = "contact" ->
            IF ContactFilled(contact) THEN generateVCard(contact) ELSE <<>>
      [] OTHER -> <<>>

\* ------------------------------------------------------- input samples
Tabs == {"url", "text", "contact"}
\* What the user types: nothing, white space only, and a value with
\* content.  The scheme cases of formatUrl are the inputs of SpecFormatUrl.
UrlInputs == {<<>>, <<" ">>, <<"a">>}
TextInputs == {<<>>, <<" ">>, <<"t">>}
\* The value each contact field is edited to (or back to the empty string).
ContactValue ==
    [firstName |-> <<"J">>, lastName |-> <<"D", ";">>, phone |-> <<"1">>,
     email |-> <<"e", ":">>, organization |-> <<"O", ",">>, url |-> <<"u">>]
ForegroundColors == {Color_000000, Color_ff0000}
BackgroundColors == {Color_ffffff, Color_0000ff}
Files == {"logo.png"}
NoImage == ""

\* ------------------------------------------------------ renderer chain
\* One record per call of generateQRCode that reached its try block: the
\* arguments and closure values it captured, and how far it has got.
\*   primary: "start" | "loading" (awaiting the script) | "composing"
\*            (awaiting addCenterImage) | "ok" | "hung" (the logo never
\*            decoded, the promise never resolves) | "loadfail" | "drawfail"
\*            | "aborted" (createQR found no container)
\*   fa, fb:  the img element's request to chart.googleapis.com and to
\*            api.qrserver.com: "none" | "loading" | "ok" | "fail";
\*            fa = "skipped" when generateFallbackQR found no container
\*   el:      the element this attempt created last: "none" | "canvas" | "img"
\*   attached: the element is the child of the mounted container
\*   overlay: the steps of addCenterImage drawn on the canvas, a subset of
\*            OverlaySteps
\* attempts is the sequence of these records in the order the calls were
\* made.  The container holds at most one element; it is empty when no
\* attempt is attached.
\* The backing circle, the separator ring and the clipped logo.
OverlaySteps == {"plate", "ring", "logo"}

NewAttempt(text, fg, bg, img) ==
    [text |-> text, fg |-> fg, bg |-> bg, img |-> img,
     primary |-> "start", el |-> "none", level |-> "", overlay |-> {},
     fa |-> "none", fb |-> "none", bReq |-> 0, attached |-> FALSE]

InFlight(a) ==
    \/ a.primary \in {"loading", "composing"}
    \/ a.fa = "loading"
    \/ a.fb = "loading"

\* container.innerHTML = ''
ClearContainer(atts) ==
    [j \in 1 .. Len(atts) |-> [atts[j] EXCEPT !.attached = FALSE]]

ReplaceChild_Cancelling(atts, i) ==
    [j \in 1 .. Len(atts) |->
        IF j = i THEN [atts[j] EXCEPT !.attached = TRUE]
        ELSE [atts[j] EXCEPT !.attached = FALSE,
                             !.primary = IF @ \in {"loading", "composing"}
                                         THEN "aborted" ELSE @]]

\* container.innerHTML = ''; container.appendChild(the element of attempt i)
ReplaceChild(atts, i) ==
    [j \in 1 .. Len(atts) |-> [atts[j] EXCEPT !.attached = (j = i)]]

Saturate(n) == IF n < MaxCount THEN n + 1 ELSE MaxCount

\* The render state the functions below transform:
\* [attempts, QRious, scriptLoads].
generateFallbackQR_NotStarted(rs, i, isMounted) ==
    [rs EXCEPT !.attempts[i].fa = "skipped"]

generateFallbackQR(rs, i, isMounted) ==
    IF ~isMounted
    THEN [rs EXCEPT !.attempts[i].fa = "skipped"]
    ELSE [rs EXCEPT !.attempts =
            ReplaceChild([@ EXCEPT ![i].el = "img", ![i].fa = "loading"], i)]

\* The level option createQR passes to QRious.
QRiousLevel(img) == "M"

createQR_FallbackAlways(rs, i, drawOk, isMounted) ==
    IF ~isMounted
    THEN [rs EXCEPT !.attempts[i].primary = "aborted"]
    ELSE generateFallbackQR(
            [rs EXCEPT !.attempts =
                ReplaceChild([@ EXCEPT ![i].el = "canvas",
                                       ![i].level = QRiousLevel(rs.attempts[i].img),
                                       ![i].primary = IF drawOk THEN "ok"
                                                      ELSE "drawfail"], i)],
            i, isMounted)

createQR(rs, i, drawOk, isMounted) ==
    IF ~isMounted
    THEN [rs EXCEPT !.attempts[i].primary = "aborted"]
    ELSE IF ~drawOk
    THEN generateFallbackQR(
            [rs EXCEPT !.attempts =
                ReplaceChild([@ EXCEPT ![i].el = "canvas",
                                       ![i].primary = "drawfail"], i)],
            i, isMounted)
    ELSE [rs EXCEPT !.attempts =
            ReplaceChild(
                [@ EXCEPT ![i].el = "canvas",
                          ![i].level = QRiousLevel(rs.attempts[i].img),
                          ![i].primary = IF rs.attempts[i].img # NoImage
                                         THEN "composing" ELSE "ok"], i)]

generateQRCode(rs, text, fg, bg, img, isMounted, drawOk) ==
    IF ~isMounted THEN rs
    ELSE IF trim(text) = <<>>
    THEN [rs EXCEPT !.attempts = ClearContainer(@)]
    ELSE LET i == Len(rs.attempts) + 1
             a == NewAttempt(text, fg, bg, img)
         IN  IF ~rs.QRious
             THEN [rs EXCEPT !.attempts = Append(@, [a EXCEPT !.primary = "loading"]),
                             !.scriptLoads = Saturate(@)]
             ELSE createQR([rs EXCEPT !.attempts = Append(@, a)], i, drawOk, isMounted)

RenderState ==
    [attempts |-> attempts, QRious |-> QRious, scriptLoads |-> scriptLoads]

\* A finished attempt whose element is not in the container is garbage:
\* nothing refers to it and no event of its is pending.  It is dropped
\* in the step after the one that finished it.
RECURSIVE Collect(_, _, _)
Collect(old, new, j) ==
    IF j > Len(new) THEN <<>>
    ELSE LET a == new[j]
             garbage ==
                /\ ~InFlight(a)
                /\ ~a.attached
                /\ j <= Len(old)
                /\ [old[j] EXCEPT !.attached = FALSE] = a
         IN  (IF garbage THEN <<>> ELSE <<a>>) \o Collect(old, new, j + 1)

SetRenderState(rs) ==
    /\ attempts' = Collect(attempts, rs.attempts, 1)
    /\ QRious' = rs.QRious
    /\ scriptLoads' = rs.scriptLoads

\* A handler that causes no run of the recompute effect.
KeepRender ==
    /\ UNCHANGED <<qrData, mounted>>
    /\ SetRenderState(RenderState)

\* The recompute effect, run after the commit of the handler's state
\* changes: the container div is the one the previous commit mounted
\* (qrData non-empty), and the commit that follows setQrData mounts or
\* unmounts it for the new payload.
RecomputeEffect ==
    LET data == ComputePayload(activeTab', urlInput', textInput', contactInfo')
    IN  /\ qrData' = data
        /\ mounted' = (data # <<>>)
        /\ \E drawOk \in BOOLEAN :
              LET rs1 == generateQRCode(RenderState, data, foregroundColor',
                                        backgroundColor', centerImage',
                                        mounted, drawOk)
              IN  SetRenderState(IF data # <<>> THEN rs1
                                 ELSE [rs1 EXCEPT !.attempts = ClearContainer(@)])

\* ------------------------------------------------------------ filename
\* The characters the class \w of the regular expression matches.
WordChars ==
    {"a", "b", "c", "d", "e", "f", "g", "h", "i", "j", "k", "l", "m",
     "n", "o", "p", "q", "r", "s", "t", "u", "v", "w", "x", "y", "z",
     "A", "B", "C", "D", "E", "F", "G", "H", "I", "J", "K", "L", "M",
     "N", "O", "P", "Q", "R", "S", "T", "U", "V", "W", "X", "Y", "Z",
     "0", "1", "2", "3", "4", "5", "6", "7", "8", "9", "_"}

\* name.replace(/[^\w\s-]/g, '')
KeepFilenameChar(c) == c \in WordChars \/ c \in Whitespace \/ c = "-"

sanitizeFilename_NoTrim(name) ==
    LET cleaned == SelectSeq(IF name = <<>> THEN DEFAULT_FILENAME ELSE name,
                             KeepFilenameChar)
    IN  IF cleaned = <<>> THEN DEFAULT_FILENAME ELSE cleaned

sanitizeFilename(name) ==
    LET cleaned == trim(SelectSeq(IF name = <<>> THEN DEFAULT_FILENAME ELSE name,
                                  KeepFilenameChar))
    IN  IF cleaned = <<>> THEN DEFAULT_FILENAME ELSE cleaned

Str_png == <<".", "p", "n", "g">>

\* The clock readings of Date: getMonth() counts from 0.
Digits == <<"0", "1", "2", "3", "4", "5", "6", "7", "8", "9">>

\* String(n).padStart(2, '0') for 0 <= n <= 99
padStart2(n) ==
    IF n < 10 THEN <<"0", Digits[n + 1]>>
    ELSE <<Digits[(n \div 10) + 1], Digits[(n % 10) + 1]>>

createTimestampedFilename_MonthFromZero(baseName, now) ==
    baseName \o <<"-">> \o padStart2(now.month) \o padStart2(now.date)
             \o <<"-">> \o padStart2(now.hours) \o padStart2(now.minutes)
             \o Str_png

createTimestampedFilename(baseName, now) ==
    baseName \o <<"-">> \o padStart2(now.month + 1) \o padStart2(now.date)
             \o <<"-">> \o padStart2(now.hours) \o padStart2(now.minutes)
             \o Str_png

\* The filename downloadQRCode computes when it is called at the time now.
DownloadFilename(name, timestamped, now) ==
    LET baseFilename == sanitizeFilename(name)
    IN  IF timestamped THEN createTimestampedFilename(baseFilename, now)
        ELSE baseFilename \o Str_png

March5_1407 == [month |-> 2, date |-> 5, hours |-> 14, minutes |-> 7]

\* The two useMemo values the view shows next to the timestamp checkbox.
\* Their dependencies are customFilename and two callbacks that never
\* change, so they are computed at mount and again only when customFilename
\* changes; createTimestampedFilename reads the clock at that moment.
PreviewMemo(changed, memo, name, now) ==
    IF changed
    THEN [filenamePreview |-> sanitizeFilename(name) \o Str_png,
          timestampedFilenamePreview |->
              createTimestampedFilename(sanitizeFilename(name), now)]
    ELSE memo

\* ------------------------------------------------------- user handlers
\* Each action is the handler, the commit of its state changes and the
\* effects that commit triggers.  An input's onChange fires only when its
\* value changes, and a setter called with the current value causes no
\* render, so those calls are left out.  The view renders the inputs of
\* the active tab only, and the remove button only while there is a center
\* image.
UserStep == edits < MaxEdits /\ edits' = edits + 1

SetActiveTab_Clearing(tab) ==
    /\ phase = "run"
    /\ UserStep
    /\ tab # activeTab
    /\ activeTab' = tab
    /\ urlInput' = <<>>
    /\ UNCHANGED <<textInput, contactInfo>>
    /\ UNCHANGED <<colorVars, imageVars, exportVars, pureVars>>
    /\ RecomputeEffect

SetActiveTab(tab) ==
    /\ phase = "run"
    /\ UserStep
    /\ tab # activeTab
    /\ activeTab' = tab
    /\ UNCHANGED <<urlInput, textInput, contactInfo>>
    /\ UNCHANGED <<colorVars, imageVars, exportVars, pureVars>>
    /\ RecomputeEffect

SetUrlInput(value) ==
    /\ phase \in {"run", "copy"}
    /\ alive
    /\ UserStep
    /\ activeTab = "url"
    /\ value # urlInput
    /\ urlInput' = value
    /\ UNCHANGED <<activeTab, textInput, contactInfo>>
    /\ UNCHANGED <<colorVars, imageVars, exportVars, pureVars>>
    /\ RecomputeEffect

SetTextInput(value) ==
    /\ phase = "run"
    /\ UserStep
    /\ activeTab = "text"
    /\ value # textInput
    /\ textInput' = value
    /\ UNCHANGED <<activeTab, urlInput, contactInfo>>
    /\ UNCHANGED <<colorVars, imageVars, exportVars, pureVars>>
    /\ RecomputeEffect

SetContactField(field, value) ==
    /\ phase = "run"
    /\ UserStep
    /\ activeTab = "contact"
    /\ value # contactInfo[field]
    /\ contactInfo' = [contactInfo EXCEPT ![field] = value]
    /\ UNCHANGED <<activeTab, urlInput, textInput>>
    /\ UNCHANGED <<colorVars, imageVars, exportVars, pureVars>>
    /\ RecomputeEffect

\* The color pickers of the view.
SetForegroundColor(color) ==
    /\ phase = "run"
    /\ UserStep
    /\ color # foregroundColor
    /\ foregroundColor' = color
    /\ foregroundHex' = color
    /\ UNCHANGED <<backgroundColor, backgroundHex>>
    /\ UNCHANGED <<formVars, imageVars, exportVars, pureVars>>
    /\ RecomputeEffect

SetBackgroundColor(color) ==
    /\ phase = "run"
    /\ UserStep
    /\ color # backgroundColor
    /\ backgroundColor' = color
    /\ backgroundHex' = color
    /\ UNCHANGED <<foregroundColor, foregroundHex>>
    /\ UNCHANGED <<formVars, imageVars, exportVars, pureVars>>
    /\ RecomputeEffect

handleImageUpload(file) ==
    /\ phase = "run"
    /\ UserStep
    /\ centerImageFile' = file
    /\ readers' = readers \cup {file}
    /\ UNCHANGED <<centerImage, formVars, colorVars, exportVars, pureVars>>
    /\ KeepRender

\* reader.onload: the data URL of the file becomes the center image.
ReaderOnLoad(file) ==
    /\ phase = "run"
    /\ UNCHANGED edits
    /\ file \in readers
    /\ readers' = readers \ {file}
    /\ centerImage' = file
    /\ UNCHANGED <<centerImageFile, formVars, colorVars, exportVars, pureVars>>
    /\ IF centerImage # file THEN RecomputeEffect ELSE KeepRender

removeCenterImage ==
    /\ phase = "run"
    /\ UserStep
    /\ centerImage # NoImage
    /\ centerImage' = NoImage
    /\ centerImageFile' = NoImage
    /\ UNCHANGED <<readers, formVars, colorVars, exportVars, pureVars>>
    /\ RecomputeEffect

\* The reset of the image-copy flag (the hook's test expects copiedImage
\* false after resetForm).
resetCopiedImage == copiedImage' = FALSE

\* resetForm empties the container itself and sets qrData to ''; the
\* effect that follows finds every input empty and no container.
resetForm ==
    /\ phase \in {"run", "copy", "preview"}
    /\ alive
    /\ UserStep
    /\ urlInput' = <<>>
    /\ textInput' = <<>>
    /\ contactInfo' = initialContactInfo
    /\ foregroundColor' = Color_000000
    /\ backgroundColor' = Color_ffffff
    /\ foregroundHex' = Color_000000
    /\ backgroundHex' = Color_ffffff
    /\ centerImage' = NoImage
    /\ centerImageFile' = NoImage
    /\ customFilename' = DEFAULT_FILENAME
    /\ addTimestamp' = FALSE
    /\ copied' = FALSE
    /\ resetCopiedImage
    /\ LET memo == PreviewMemo(customFilename # DEFAULT_FILENAME,
                               [filenamePreview |-> filenamePreview,
                                timestampedFilenamePreview |-> timestampedFilenamePreview],
                               DEFAULT_FILENAME, wallClock)
       IN  /\ filenamePreview' = memo.filenamePreview
           /\ timestampedFilenamePreview' = memo.timestampedFilenamePreview
    /\ qrData' = <<>>
    /\ mounted' = FALSE
    /\ SetRenderState([RenderState EXCEPT !.attempts = ClearContainer(@)])
    /\ UNCHANGED <<activeTab, readers, downloads, timerVars, wallClock, pureVars>>

\* ------------------------------------------------- asynchronous events
\* script.onload: the library is defined and the attempt goes on to createQR.
ScriptOnLoad(i) ==
    /\ phase = "run"
    /\ UNCHANGED edits
    /\ attempts[i].primary = "loading"
    /\ \E drawOk \in BOOLEAN :
          SetRenderState(createQR([RenderState EXCEPT !.QRious = TRUE],
                                  i, drawOk, mounted))
    /\ UNCHANGED <<formVars, qrData, colorVars, imageVars, exportVars, mounted, pureVars>>

\* script.onerror: the promise rejects and generateQRCode's catch runs.
ScriptOnError(i) ==
    /\ phase = "run"
    /\ UNCHANGED edits
    /\ attempts[i].primary = "loading"
    /\ SetRenderState(generateFallbackQR(
                          [RenderState EXCEPT !.attempts[i].primary = "loadfail"],
                          i, mounted))
    /\ UNCHANGED <<formVars, qrData, colorVars, imageVars, exportVars, mounted, pureVars>>

\* img.onload of addCenterImage: plate, ring and clipped logo are drawn.
LogoOnLoad(i) ==
    /\ phase = "run"
    /\ UNCHANGED edits
    /\ attempts[i].primary = "composing"
    /\ SetRenderState([RenderState EXCEPT !.attempts[i].overlay = OverlaySteps,
                                          !.attempts[i].primary = "ok"])
    /\ UNCHANGED <<formVars, qrData, colorVars, imageVars, exportVars, mounted, pureVars>>

LogoOnError_HalfDrawn(i) ==
    /\ phase = "run"
    /\ UNCHANGED edits
    /\ attempts[i].primary = "composing"
    /\ SetRenderState([RenderState EXCEPT !.attempts[i].primary = "hung",
                                          !.attempts[i].overlay = {"plate", "ring"}])
    /\ UNCHANGED <<formVars, qrData, colorVars, imageVars, exportVars, mounted, pureVars>>

\* The logo fails to decode: addCenterImage sets no onerror handler, so
\* nothing is drawn and its promise stays pending; createQR never resumes.
LogoOnError(i) ==
    /\ phase = "run"
    /\ UNCHANGED edits
    /\ attempts[i].primary = "composing"
    /\ SetRenderState([RenderState EXCEPT !.attempts[i].primary = "hung"])
    /\ UNCHANGED <<formVars, qrData, colorVars, imageVars, exportVars, mounted, pureVars>>

\* The fallback img element loads its current src.
ImgOnLoad(i) ==
    /\ phase = "run"
    /\ UNCHANGED edits
    /\ \/ /\ attempts[i].fa = "loading"
          /\ SetRenderState([RenderState EXCEPT !.attempts[i].fa = "ok"])
       \/ /\ attempts[i].fb = "loading"
          /\ SetRenderState([RenderState EXCEPT !.attempts[i].fb = "ok"])
    /\ UNCHANGED <<formVars, qrData, colorVars, imageVars, exportVars, mounted, pureVars>>

\* img.onerror: the handler points the element at api.qrserver.com, also
\* when the failed request was already that one.
ImgOnError(i) ==
    /\ phase = "run"
    /\ UNCHANGED edits
    /\ \/ /\ attempts[i].fa = "loading"
          /\ SetRenderState([RenderState EXCEPT !.attempts[i].fa = "fail",
                                                !.attempts[i].fb = "loading",
                                                !.attempts[i].bReq = 1])
       \/ /\ attempts[i].fb = "loading"
          /\ SetRenderState([RenderState EXCEPT !.attempts[i].bReq = Saturate(@)])
    /\ UNCHANGED <<formVars, qrData, colorVars, imageVars, exportVars, mounted, pureVars>>

\* ------------------------------------------------------ specification
\* No copy made yet: both flags false, both timeout refs null, no window
\* timer, no clipboard write in flight, the hook mounted.  clock is the time
\* in milliseconds; copiedAt[f] is the clock reading at the latest successful
\* copy that set flag f and loggedAt[f] at the latest failed copy the catch
\* block logged with console.error (-1: none yet).
InitClipboard ==
    /\ copiedImage = FALSE
    /\ copyTimeoutRef = 0
    /\ copyImageTimeoutRef = 0
    /\ timers = {}
    /\ timerIds = 0
    /\ writes = [copied |-> 0, copiedImage |-> 0]
    /\ clock = 0
    /\ alive = TRUE
    /\ copiedAt = [copied |-> -1, copiedImage |-> -1]
    /\ loggedAt = [copied |-> -1, copiedImage |-> -1]
    /\ copyCalls = 0
    /\ writeCalls = 0
    /\ copyRejections = 0

\* The previews as computed at mount, on March 5 at 14:07.
InitPreview ==
    /\ wallClock = March5_1407
    /\ filenamePreview = sanitizeFilename(customFilename) \o Str_png
    /\ timestampedFilenamePreview =
          createTimestampedFilename(sanitizeFilename(customFilename), wallClock)

InitProgram ==
    /\ activeTab = "url"
    /\ urlInput = <<>>
    /\ textInput = <<>>
    /\ contactInfo = initialContactInfo
    /\ qrData = <<>>
    /\ foregroundColor = Color_000000
    /\ backgroundColor = Color_ffffff
    /\ foregroundHex = Color_000000
    /\ backgroundHex = Color_ffffff
    /\ centerImage = NoImage
    /\ centerImageFile = NoImage
    /\ readers = {}
    /\ customFilename = DEFAULT_FILENAME
    /\ addTimestamp = FALSE
    /\ copied = FALSE
    /\ InitClipboard
    /\ InitPreview
    /\ downloads = <<>>
    /\ mounted = FALSE
    /\ attempts = <<>>
    /\ QRious = FALSE
    /\ scriptLoads = 0
    /\ edits = 0

Init ==
    /\ InitProgram
    /\ phase = "run"
    /\ fx = <<>>
    /\ fy = <<>>
    /\ fz = <<>>

Next ==
    \/ \E tab \in Tabs : SetActiveTab(tab)
    \/ \E value \in UrlInputs : SetUrlInput(value)
    \/ \E value \in TextInputs : SetTextInput(value)
    \/ \E field \in ContactFields :
          \E value \in {<<>>, ContactValue[field]} : SetContactField(field, value)
    \/ \E color \in ForegroundColors : SetForegroundColor(color)
    \/ \E color \in BackgroundColors : SetBackgroundColor(color)
    \/ \E file \in Files : handleImageUpload(file)
    \/ \E file \in Files : ReaderOnLoad(file)
    \/ removeCenterImage
    \/ resetForm
    \/ \E i \in 1 .. Len(attempts) : ScriptOnLoad(i)
    \/ \E i \in 1 .. Len(attempts) : ScriptOnError(i)
    \/ \E i \in 1 .. Len(attempts) : LogoOnLoad(i)
    \/ \E i \in 1 .. Len(attempts) : LogoOnError(i)
    \/ \E i \in 1 .. Len(attempts) : ImgOnLoad(i)
    \/ \E i \in 1 .. Len(attempts) : ImgOnError(i)

Spec == Init /\ [][Next]_vars

\* ------------------------------------------- formatUrl on its own
\* Strings of at most n characters over a set of characters.
RECURSIVE StringsUpTo(_, _)
StringsUpTo(chars, n) ==
    IF n = 0 THEN {<<>>}
    ELSE LET shorter == StringsUpTo(chars, n - 1)
         IN  shorter \cup {<<c>> \o t : c \in chars, t \in shorter}

UrlHeads ==
    {<<>>, Str_http, Str_https, <<" ">> \o Str_http, <<"h", "t", "t", "p">>,
     <<"h", "t", "t", "p", "s", ":", "/">>}
TailChars == {" ", "a", "/"}
FormatUrlInputs == {h \o t : h \in UrlHeads, t \in StringsUpTo(TailChars, MaxTail)}

InitFormatUrl ==
    /\ InitProgram
    /\ phase = "input"
    /\ fx \in FormatUrlInputs
    /\ fy = <<>>
    /\ fz = <<>>

\* fy = formatUrl(fx)
ApplyFormatUrl ==
    /\ phase = "input"
    /\ phase' = "once"
    /\ fy' = formatUrl(fx)
    /\ UNCHANGED <<fx, fz>>
    /\ UNCHANGED <<edits, formVars, qrData, colorVars, imageVars, exportVars, renderVars>>

\* fz = formatUrl(formatUrl(fx))
ReapplyFormatUrl ==
    /\ phase = "once"
    /\ phase' = "twice"
    /\ fz' = formatUrl(fy)
    /\ UNCHANGED <<fx, fy>>
    /\ UNCHANGED <<edits, formVars, qrData, colorVars, imageVars, exportVars, renderVars>>

NextFormatUrl == ApplyFormatUrl \/ ReapplyFormatUrl

SpecFormatUrl == InitFormatUrl /\ [][NextFormatUrl]_vars

\* ------------------------------------- the payload switch on its own
ContactRecords ==
    {[f \in ContactFields |-> IF f \in filled THEN ContactValue[f] ELSE <<>>] :
        filled \in SUBSET ContactFields}

EncodeInputs ==
    [tab : Tabs, url : UrlInputs, text : TextInputs, contact : ContactRecords]

InitEncode ==
    /\ InitProgram
    /\ phase = "input"
    /\ fx \in EncodeInputs
    /\ fy = <<>>
    /\ fz = <<>>

\* fy = the payload the effect computes for the inputs fx
ApplyEncode ==
    /\ phase = "input"
    /\ phase' = "once"
    /\ fy' = ComputePayload(fx.tab, fx.url, fx.text, fx.contact)
    /\ UNCHANGED <<fx, fz>>
    /\ UNCHANGED <<edits, formVars, qrData, colorVars, imageVars, exportVars, renderVars>>

NextEncode == ApplyEncode

SpecEncode == InitEncode /\ [][NextEncode]_vars

\* ------------------------------------------- the filename on its own
FilenameChars == {"a", "7", "_", "-", " ", "@", "."}
Str_MyCoolQR == <<"M", "y", "@", "C", "o", "o", "l", "#", "Q", "R", "!">>
FilenameInputs == StringsUpTo(FilenameChars, MaxName) \cup {Str_MyCoolQR}
Clocks ==
    [month : {0, 2, 9, 11}, date : {1, 5, 31},
     hours : {0, 9, 14, 23}, minutes : {0, 7, 59}]
FilenameCases ==
    {[name |-> n, addTimestamp |-> FALSE, now |-> March5_1407] : n \in FilenameInputs}
    \cup [name : {<<>>, <<"a", "@">>}, addTimestamp : {TRUE}, now : Clocks]

InitFilename ==
    /\ InitProgram
    /\ phase = "input"
    /\ fx \in FilenameCases
    /\ fy = <<>>
    /\ fz = <<>>

\* fy = sanitizeFilename(customFilename)
ApplySanitize ==
    /\ phase = "input"
    /\ phase' = "once"
    /\ fy' = sanitizeFilename(fx.name)
    /\ UNCHANGED <<fx, fz>>
    /\ UNCHANGED <<edits, formVars, qrData, colorVars, imageVars, exportVars, renderVars>>

\* fz = the filename of a download made at the time fx.now
ApplyDownloadFilename ==
    /\ phase = "once"
    /\ phase' = "twice"
    /\ fz' = DownloadFilename(fx.name, fx.addTimestamp, fx.now)
    /\ UNCHANGED <<fx, fy>>
    /\ UNCHANGED <<edits, formVars, qrData, colorVars, imageVars, exportVars, renderVars>>

NextFilename == ApplySanitize \/ ApplyDownloadFilename

SpecFilename == InitFilename /\ [][NextFilename]_vars

\* ------------------------------- the geometry of addCenterImage on its own
\* Lengths are in 1/200 pixel, so that the ratio and the halves are exact.
Px(n) == n * 200

\* canvasSize * 0.25, as a percentage.
CENTER_IMAGE_SIZE_RATIO == 25
CENTER_IMAGE_PADDING == 8
CENTER_IMAGE_BORDER_PADDING == 6

\* What img.onload of addCenterImage draws on a canvas of the given width.
OverlayGeometry(canvasSize) ==
    LET imageSize == (Px(canvasSize) * CENTER_IMAGE_SIZE_RATIO) \div 100
    IN  [centre |-> Px(canvasSize) \div 2,
         clipDiameter |-> imageSize,
         plateRadius |-> imageSize \div 2 + Px(CENTER_IMAGE_PADDING),
         ringRadius |-> imageSize \div 2 + Px(CENTER_IMAGE_BORDER_PADDING),
         position |-> (Px(canvasSize) - imageSize) \div 2]

InitOverlay ==
    /\ InitProgram
    /\ phase = "input"
    /\ fx \in 1 .. MaxSide
    /\ fy = <<>>
    /\ fz = <<>>

\* fy = the geometry drawn on a canvas of side fx
ApplyOverlay ==
    /\ phase = "input"
    /\ phase' = "once"
    /\ fy' = OverlayGeometry(fx)
    /\ UNCHANGED <<fx, fz>>
    /\ UNCHANGED <<edits, formVars, qrData, colorVars, imageVars, exportVars, renderVars>>

NextOverlay == ApplyOverlay

SpecOverlay == InitOverlay /\ [][NextOverlay]_vars

\* ------------------------------------------------ the download on its own
\* One record per call of downloadQRCode that got past its payload check:
\*   raster:   what querySelector found in the container: "canvas" | "img"
\*             | "none"
\*   filename: the filename computed at the call
\*   stage:    "blobPending" (canvas.toBlob called, callback due)
\*             | "imgLoading" (downloadFromImage awaits newImg)
\*             | "imgBlobPending" (downloadCanvas.toBlob called) | "done"
\*   blob:     the PNG blob encoding: "none" | "pending" | "ok" | "null"
\*             | "threw"
\*   dataUrl:  canvas.toDataURL in the catch block: "none" | "ok" | "threw"
\*   via:      the link that was clicked: "none" | "blob" | "dataurl"
\*             | "link" (the anchor to the image's own URL)
\*   alerts:   the calls of alert
NewDownload(raster, filename) ==
    [raster |-> raster, filename |-> filename, stage |-> "done",
     blob |-> "none", dataUrl |-> "none", via |-> "none", alerts |-> 0]

\* What the container holds.
Raster ==
    IF \E k \in 1 .. Len(attempts) : attempts[k].attached
    THEN attempts[CHOOSE k \in 1 .. Len(attempts) : attempts[k].attached].el
    ELSE "none"

\* The catch block of downloadQRCode.
DownloadCatch(d, dataUrlOk) ==
    IF d.raster # "canvas" THEN d
    ELSE IF dataUrlOk THEN [d EXCEPT !.dataUrl = "ok", !.via = "dataurl"]
    ELSE [d EXCEPT !.dataUrl = "threw", !.alerts = 1]

\* The download button is rendered while qrData is non-empty.
downloadQRCode(now, toBlobThrows, ctxOk, dataUrlOk) ==
    /\ phase = "download"
    /\ qrData # <<>>
    /\ Len(downloads) < MaxDownloads
    /\ LET d == NewDownload(Raster,
                            DownloadFilename(customFilename, addTimestamp, now))
       IN  downloads' = Append(downloads,
              CASE d.raster = "canvas" ->
                      IF toBlobThrows
                      THEN DownloadCatch([d EXCEPT !.blob = "threw"], dataUrlOk)
                      ELSE [d EXCEPT !.blob = "pending", !.stage = "blobPending"]
                [] d.raster = "img" ->
                      IF ctxOk THEN [d EXCEPT !.stage = "imgLoading"]
                      ELSE DownloadCatch(d, dataUrlOk)
                [] OTHER -> d)
    /\ UNCHANGED <<customFilename, addTimestamp, copied, clipVars, previewVars>>
    /\ UNCHANGED <<edits, formVars, qrData, colorVars, imageVars, renderVars, pureVars>>

\* The callback of canvas.toBlob in downloadQRCode.
ToBlobCallback(i, blobOk) ==
    /\ phase = "download"
    /\ downloads[i].stage = "blobPending"
    /\ downloads' = [downloads EXCEPT ![i] =
          IF blobOk THEN [@ EXCEPT !.stage = "done", !.blob = "ok", !.via = "blob"]
          ELSE [@ EXCEPT !.stage = "done", !.blob = "null"]]
    /\ UNCHANGED <<customFilename, addTimestamp, copied, clipVars, previewVars>>
    /\ UNCHANGED <<edits, formVars, qrData, colorVars, imageVars, renderVars, pureVars>>

\* newImg.onload of downloadFromImage: drawing or toBlob may throw (a
\* tainted canvas), which rejects the promise.
NewImgOnLoad(i, drawOk, dataUrlOk) ==
    /\ phase = "download"
    /\ downloads[i].stage = "imgLoading"
    /\ downloads' = [downloads EXCEPT ![i] =
          IF drawOk THEN [@ EXCEPT !.stage = "imgBlobPending", !.blob = "pending"]
          ELSE DownloadCatch([@ EXCEPT !.stage = "done", !.blob = "threw"], dataUrlOk)]
    /\ UNCHANGED <<customFilename, addTimestamp, copied, clipVars, previewVars>>
    /\ UNCHANGED <<edits, formVars, qrData, colorVars, imageVars, renderVars, pureVars>>

\* The callback of downloadCanvas.toBlob in downloadFromImage.
ImgToBlobCallback(i, blobOk, dataUrlOk) ==
    /\ phase = "download"
    /\ downloads[i].stage = "imgBlobPending"
    /\ downloads' = [downloads EXCEPT ![i] =
          IF blobOk THEN [@ EXCEPT !.stage = "done", !.blob = "ok", !.via = "blob"]
          ELSE DownloadCatch([@ EXCEPT !.stage = "done", !.blob = "null"], dataUrlOk)]
    /\ UNCHANGED <<customFilename, addTimestamp, copied, clipVars, previewVars>>
    /\ UNCHANGED <<edits, formVars, qrData, colorVars, imageVars, renderVars, pureVars>>

\* newImg.onerror of downloadFromImage: an anchor to the image's own URL.
NewImgOnError(i) ==
    /\ phase = "download"
    /\ downloads[i].stage = "imgLoading"
    /\ downloads' = [downloads EXCEPT ![i] = [@ EXCEPT !.stage = "done", !.via = "link"]]
    /\ UNCHANGED <<customFilename, addTimestamp, copied, clipVars, previewVars>>
    /\ UNCHANGED <<edits, formVars, qrData, colorVars, imageVars, renderVars, pureVars>>

\* States of the application with the payload https://a in which the
\* download button can be clicked: the container still empty, holding the
\* canvas of the Primary, or holding the image of Fallback A.
DownloadPayload == formatUrl(<<"a">>)
RenderLoading ==
    generateQRCode([attempts |-> <<>>, QRious |-> FALSE, scriptLoads |-> 0],
                   DownloadPayload, Color_000000, Color_ffffff, NoImage, TRUE, TRUE)
RenderCanvas == createQR([RenderLoading EXCEPT !.QRious = TRUE], 1, TRUE, TRUE)
RenderImage ==
    [generateFallbackQR([RenderLoading EXCEPT !.attempts[1].primary = "loadfail"],
                        1, TRUE)
        EXCEPT !.attempts[1].fa = "ok"]
RenderNothing == [attempts |-> <<>>, QRious |-> FALSE, scriptLoads |-> 0]
DownloadClocks == {March5_1407, [month |-> 11, date |-> 31, hours |-> 23, minutes |-> 59]}

InitDownload ==
    /\ activeTab = "url"
    /\ urlInput = <<"a">>
    /\ textInput = <<>>
    /\ contactInfo = initialContactInfo
    /\ qrData = DownloadPayload
    /\ foregroundColor = Color_000000
    /\ backgroundColor = Color_ffffff
    /\ foregroundHex = Color_000000
    /\ backgroundHex = Color_ffffff
    /\ centerImage = NoImage
    /\ centerImageFile = NoImage
    /\ readers = {}
    /\ customFilename \in {DEFAULT_FILENAME, <<"a", "@">>}
    /\ addTimestamp \in BOOLEAN
    /\ copied = FALSE
    /\ InitClipboard
    /\ InitPreview
    /\ downloads = <<>>
    /\ mounted = TRUE
    /\ \E rs \in {RenderNothing, RenderCanvas, RenderImage} :
          /\ attempts = rs.attempts
          /\ QRious = rs.QRious
          /\ scriptLoads = rs.scriptLoads
    /\ edits = 0
    /\ phase = "download"
    /\ fx = <<>>
    /\ fy = <<>>
    /\ fz = <<>>

NextDownload ==
    \/ \E now \in DownloadClocks : \E toBlobThrows, ctxOk, dataUrlOk \in BOOLEAN :
          downloadQRCode(now, toBlobThrows, ctxOk, dataUrlOk)
    \/ \E i \in 1 .. Len(downloads) : \E blobOk \in BOOLEAN : ToBlobCallback(i, blobOk)
    \/ \E i \in 1 .. Len(downloads) : \E drawOk, dataUrlOk \in BOOLEAN :
          NewImgOnLoad(i, drawOk, dataUrlOk)
    \/ \E i \in 1 .. Len(downloads) : \E blobOk, dataUrlOk \in BOOLEAN :
          ImgToBlobCallback(i, blobOk, dataUrlOk)
    \/ \E i \in 1 .. Len(downloads) : NewImgOnError(i)

SpecDownload == InitDownload /\ [][NextDownload]_vars

\* ----------------------------------------------------- filename preview
\* The filename box: setCustomFilename with the value typed.
SetCustomFilename(name) ==
    /\ phase = "preview"
    /\ UserStep
    /\ name # customFilename
    /\ customFilename' = name
    /\ LET memo == PreviewMemo(TRUE,
                               [filenamePreview |-> filenamePreview,
                                timestampedFilenamePreview |-> timestampedFilenamePreview],
                               name, wallClock)
       IN  /\ filenamePreview' = memo.filenamePreview
           /\ timestampedFilenamePreview' = memo.timestampedFilenamePreview
    /\ UNCHANGED <<addTimestamp, copied, downloads, clipVars, wallClock>>
    /\ UNCHANGED <<formVars, colorVars, imageVars, pureVars>>
    /\ KeepRender

\* The timestamp checkbox: setAddTimestamp with its checked state.
SetAddTimestamp(checked) ==
    /\ phase = "preview"
    /\ UserStep
    /\ checked # addTimestamp
    /\ addTimestamp' = checked
    /\ UNCHANGED <<customFilename, copied, downloads, clipVars, previewVars>>
    /\ UNCHANGED <<formVars, colorVars, imageVars, pureVars>>
    /\ KeepRender

\* Moments new Date() can return, in the order they come.
PreviewClocks ==
    <<March5_1407,
      [month |-> 2, date |-> 5, hours |-> 14, minutes |-> 8],
      [month |-> 2, date |-> 6, hours |-> 0, minutes |-> 0],
      [month |-> 11, date |-> 31, hours |-> 23, minutes |-> 59]>>

\* Time passes: no state of the hook changes and nothing renders.
TimePasses ==
    /\ phase = "preview"
    /\ \E i \in 1 .. Len(PreviewClocks) - 1 :
          /\ wallClock = PreviewClocks[i]
          /\ wallClock' = PreviewClocks[i + 1]
    /\ UNCHANGED <<customFilename, addTimestamp, copied, downloads, clipVars,
                   filenamePreview, timestampedFilenamePreview>>
    /\ UNCHANGED <<edits, formVars, qrData, colorVars, imageVars, renderVars, pureVars>>

PreviewNames == {<<>>, DEFAULT_FILENAME, <<"a", "@">>, <<" ", "7", "_">>, Str_MyCoolQR}

InitFilenamePreview ==
    /\ InitProgram
    /\ phase = "preview"
    /\ fx = <<>>
    /\ fy = <<>>
    /\ fz = <<>>

NextPreview ==
    \/ \E name \in PreviewNames : SetCustomFilename(name)
    \/ \E checked \in BOOLEAN : SetAddTimestamp(checked)
    \/ TimePasses
    \/ resetForm

SpecPreview == InitFilenamePreview /\ [][NextPreview]_vars

\* -------------------------------------------------------------- locales
\* The keys of TRANSLATIONS in insertion order (the order of Object.keys).
Locale_enUS == <<"e", "n", "-", "U", "S">>
Locale_esES == <<"e", "s", "-", "E", "S">>
TranslationKeys == <<Locale_enUS, Locale_esES>>
DEFAULT_LOCALE == Locale_enUS

\* TRANSLATIONS is an object literal: besides its own keys a property read
\* finds the members it inherits from Object.prototype, all of them truthy.
Str_constructor == <<"c", "o", "n", "s", "t", "r", "u", "c", "t", "o", "r">>
Str_toString == <<"t", "o", "S", "t", "r", "i", "n", "g">>
Str_proto == <<"_", "_", "p", "r", "o", "t", "o", "_", "_">>
ObjectPrototypeKeys == {Str_constructor, Str_toString, Str_proto}
OwnKeys == {TranslationKeys[i] : i \in 1 .. Len(TranslationKeys)}
HasTruthyProperty(locale) == locale \in OwnKeys \cup ObjectPrototypeKeys

\* locale.split("-")[0]
RECURSIVE BeforeDash(_)
BeforeDash(s) ==
    IF s = <<>> \/ Head(s) = "-" THEN <<>> ELSE <<Head(s)>> \o BeforeDash(Tail(s))

\* Object.keys(TRANSLATIONS).find(key => key.startsWith(`${language}-`)):
\* the index of the first such key, 0 for undefined.
FindKey(language) ==
    LET hits == {i \in 1 .. Len(TranslationKeys) :
                    startsWith(TranslationKeys[i], language \o <<"-">>)}
    IN  IF hits = {} THEN 0 ELSE CHOOSE i \in hits : \A j \in hits : i <= j

findMatchingLocale(locale) ==
    IF HasTruthyProperty(locale) THEN locale
    ELSE LET match == FindKey(BeforeDash(locale))
         IN  IF match # 0 THEN TranslationKeys[match] ELSE DEFAULT_LOCALE

\* Locale strings: a language part followed by a rest, and names of members
\* of Object.prototype.
LocaleHeads ==
    {<<>>, <<"e">>, <<"e", "n">>, <<"e", "s">>, <<"E", "N">>, <<"f", "r">>,
     <<"d", "e">>, <<"e", "n", "g">>}
LocaleTails ==
    {<<>>, <<"-">>, <<"-", "U", "S">>, <<"-", "E", "S">>, <<"-", "G", "B">>,
     <<"-", "u", "s">>, <<"-", "U", "S", "-", "x">>, <<"_", "U", "S">>}
LocaleInputs ==
    {head \o tail : head \in LocaleHeads, tail \in LocaleTails}
        \cup ObjectPrototypeKeys \cup {<<"i", "n", "v", "a", "l", "i", "d">>}

InitLocale ==
    /\ InitProgram
    /\ phase = "input"
    /\ fx \in LocaleInputs
    /\ fy = <<>>
    /\ fz = <<>>

\* fy = findMatchingLocale(fx)
ApplyFindMatchingLocale ==
    /\ phase = "input"
    /\ phase' = "once"
    /\ fy' = findMatchingLocale(fx)
    /\ UNCHANGED <<fx, fz>>
    /\ UNCHANGED <<edits, formVars, qrData, colorVars, imageVars, exportVars, renderVars>>

NextLocale == ApplyFindMatchingLocale

SpecLocale == InitLocale /\ [][NextLocale]_vars

\* ------------------------------------------------------ hex text inputs
\* /^#[0-9A-F]{6}$/i
HexDigits ==
    {"0", "1", "2", "3", "4", "5", "6", "7", "8", "9",
     "a", "b", "c", "d", "e", "f", "A", "B", "C", "D", "E", "F"}
IsHexColor_AnyLength(hex) ==
    /\ Len(hex) >= 2
    /\ hex[1] = "#"
    /\ \A i \in 2 .. Len(hex) : hex[i] \in HexDigits
IsHexColor(hex) ==
    /\ Len(hex) = 7
    /\ hex[1] = "#"
    /\ \A i \in 2 .. 7 : hex[i] \in HexDigits

\* The text box always takes the value typed; the color follows only when
\* the value passes the test, and the effect then renders again.
handleForegroundHexChange(hex) ==
    /\ phase = "hex"
    /\ UserStep
    /\ hex # foregroundHex
    /\ foregroundHex' = hex
    /\ foregroundColor' = IF IsHexColor(hex) THEN hex ELSE foregroundColor
    /\ UNCHANGED <<backgroundColor, backgroundHex>>
    /\ UNCHANGED <<formVars, imageVars, exportVars, pureVars>>
    /\ IF foregroundColor' # foregroundColor THEN RecomputeEffect ELSE KeepRender

handleBackgroundHexChange(hex) ==
    /\ phase = "hex"
    /\ UserStep
    /\ hex # backgroundHex
    /\ backgroundHex' = hex
    /\ backgroundColor' = IF IsHexColor(hex) THEN hex ELSE backgroundColor
    /\ UNCHANGED <<foregroundColor, foregroundHex>>
    /\ UNCHANGED <<formVars, imageVars, exportVars, pureVars>>
    /\ IF backgroundColor' # backgroundColor THEN RecomputeEffect ELSE KeepRender

\* Values typed into the hex boxes (maxLength 7 in the view; the handlers
\* take any string).
HexInputs ==
    {<<>>,
     <<"#">>,
     <<"#", "A", "B", "C">>,
     <<"#", "A", "B", "C", "D", "E">>,
     <<"#", "A", "B", "C", "D", "E", "F">>,
     <<"#", "a", "b", "c", "d", "e", "f">>,
     <<"#", "1", "2", "a", "B", "9", "f">>,
     <<"#", "A", "B", "C", "D", "E", "G">>,
     <<"A", "B", "C", "D", "E", "F", "0">>,
     <<"i", "n", "v", "a", "l", "i", "d">>,
     <<"#", "A", "B", "C", "D", "E", "F", "0">>,
     <<" ", "#", "A", "B", "C", "D", "E", "F">>}

InitHex ==
    /\ InitProgram
    /\ phase = "hex"
    /\ fx = <<>>
    /\ fy = <<>>
    /\ fz = <<>>

NextHex ==
    \/ \E hex \in HexInputs : handleForegroundHexChange(hex)
    \/ \E hex \in HexInputs : handleBackgroundHexChange(hex)

SpecHex == InitHex /\ [][NextHex]_vars

\* ----------------------------------------------------------- clipboard
CLIPBOARD_RESET_TIMEOUT == 2000

\* window.setTimeout and window.clearTimeout on the set of pending timers;
\* a timer is the flag its callback clears, its id and the time it is due.
\* clearTimeout of an id that is not pending does nothing.
setTimeout(ts, id, flag, due) == ts \cup {[id |-> id, flag |-> flag, due |-> due]}
clearTimeout(ts, id) == {t \in ts : t.id # id}

Min(S) == CHOOSE x \in S : \A y \in S : x <= y

\* The clock is observed every half timeout and whenever a timer is due.
ClockStep == CLIPBOARD_RESET_TIMEOUT \div 2

\* Time passes, never beyond a pending timer: the event loop runs a due
\* callback when its time has come.
Tick ==
    /\ phase = "copy"
    /\ clock < MaxTicks * ClockStep
    /\ \A t \in timers : clock < t.due
    /\ clock' = Min({clock + ClockStep} \cup {t.due : t \in timers})
    /\ UNCHANGED <<copied, copiedImage, copyTimeoutRef, copyImageTimeoutRef,
                   timers, timerIds, writes, alive, copiedAt, loggedAt, copyCalls,
                   writeCalls, copyRejections>>
    /\ UNCHANGED <<customFilename, addTimestamp, downloads, previewVars>>
    /\ UNCHANGED <<edits, formVars, qrData, colorVars, imageVars, renderVars, pureVars>>

\* What the catch block does to the flag, and to the promise the caller
\* holds: console.error only.
CopyCatch_ClearsFlag(flag, rejections) == [flag |-> FALSE, rejections |-> rejections]
CopyCatch(flag, rejections) == [flag |-> flag, rejections |-> rejections]

\* The copy button is rendered while qrData is non-empty.  With
\* navigator.clipboard undefined the property access throws inside the try
\* block and the catch logs it; otherwise the call awaits writeText.
copyToClipboard(clipboardPresent) ==
    /\ phase = "copy"
    /\ alive
    /\ qrData # <<>>
    /\ copyCalls < MaxCopies
    /\ copyCalls' = copyCalls + 1
    /\ IF clipboardPresent
       THEN /\ writes' = [writes EXCEPT !.copied = @ + 1]
            /\ writeCalls' = writeCalls + 1
            /\ UNCHANGED loggedAt
       ELSE /\ loggedAt' = [loggedAt EXCEPT !.copied = clock]
            /\ UNCHANGED <<writes, writeCalls>>
    /\ copied' = IF clipboardPresent THEN copied
                 ELSE CopyCatch(copied, copyRejections).flag
    /\ copyRejections' = IF clipboardPresent THEN copyRejections
                         ELSE CopyCatch(copied, copyRejections).rejections
    /\ UNCHANGED <<copiedImage, copyTimeoutRef, copyImageTimeoutRef,
                   timers, timerIds, clock, alive, copiedAt>>
    /\ UNCHANGED <<customFilename, addTimestamp, downloads, previewVars>>
    /\ UNCHANGED <<edits, formVars, qrData, colorVars, imageVars, renderVars, pureVars>>

\* The timer part of copyToClipboard after the await: the timer the ref
\* holds is cleared and a new one is armed.
ArmCopyTimeout_Stacking(ts, ref, id, now) ==
    setTimeout(ts, id, "copied", now + CLIPBOARD_RESET_TIMEOUT)
ArmCopyTimeout_SharedTimer(ts, ref, id, now) ==
    setTimeout({}, id, "copied", now + CLIPBOARD_RESET_TIMEOUT)
ArmCopyTimeout_FromZero(ts, ref, id, now) ==
    setTimeout(IF ref # 0 THEN clearTimeout(ts, ref) ELSE ts,
               id, "copied", CLIPBOARD_RESET_TIMEOUT)
ArmCopyTimeout(ts, ref, id, now) ==
    setTimeout(IF ref # 0 THEN clearTimeout(ts, ref) ELSE ts,
               id, "copied", now + CLIPBOARD_RESET_TIMEOUT)

\* writeText resolved: the rest of the try block runs.  React drops a state
\* update of an unmounted component; the timer is armed all the same.
WriteTextResolved ==
    /\ phase = "copy"
    /\ writes.copied > 0
    /\ writes' = [writes EXCEPT !.copied = @ - 1]
    /\ copied' = IF alive THEN TRUE ELSE copied
    /\ timerIds' = timerIds + 1
    /\ timers' = ArmCopyTimeout(timers, copyTimeoutRef, timerIds + 1, clock)
    /\ copyTimeoutRef' = timerIds + 1
    /\ copiedAt' = [copiedAt EXCEPT !.copied = clock]
    /\ UNCHANGED <<copiedImage, copyImageTimeoutRef, clock, alive, copyCalls,
                   writeCalls, copyRejections>>
    /\ UNCHANGED loggedAt
    /\ UNCHANGED <<customFilename, addTimestamp, downloads, previewVars>>
    /\ UNCHANGED <<edits, formVars, qrData, colorVars, imageVars, renderVars, pureVars>>

\* writeText rejected (permission denied): the catch block logs the error.
WriteTextRejected ==
    /\ phase = "copy"
    /\ writes.copied > 0
    /\ writes' = [writes EXCEPT !.copied = @ - 1]
    /\ copied' = CopyCatch(copied, copyRejections).flag
    /\ copyRejections' = CopyCatch(copied, copyRejections).rejections
    /\ UNCHANGED <<copiedImage, copyTimeoutRef, copyImageTimeoutRef, timers,
                   timerIds, clock, alive, copiedAt, copyCalls, writeCalls>>
    /\ loggedAt' = [loggedAt EXCEPT !.copied = clock]
    /\ UNCHANGED <<customFilename, addTimestamp, downloads, previewVars>>
    /\ UNCHANGED <<edits, formVars, qrData, colorVars, imageVars, renderVars, pureVars>>

\* The callback () => setCopied(false) of a timer that is due.
CopiedTimerFires(t) ==
    /\ phase = "copy"
    /\ t \in timers
    /\ t.flag = "copied"
    /\ t.due <= clock
    /\ timers' = timers \ {t}
    /\ copied' = IF alive THEN FALSE ELSE copied
    /\ UNCHANGED <<copiedImage, copyTimeoutRef, copyImageTimeoutRef, timerIds,
                   writes, clock, alive, copiedAt, loggedAt, copyCalls, writeCalls,
                   copyRejections>>
    /\ UNCHANGED <<customFilename, addTimestamp, downloads, previewVars>>
    /\ UNCHANGED <<edits, formVars, qrData, colorVars, imageVars, renderVars, pureVars>>

\* copyImageToClipboard: the raster is encoded as a PNG blob and written with
\* navigator.clipboard.write; on success copiedImage is set and its own
\* timer, kept in copyImageTimeoutRef, is reset.
copyImageToClipboard(clipboardPresent) ==
    /\ phase = "copy"
    /\ alive
    /\ qrData # <<>>
    /\ copyCalls < MaxCopies
    /\ copyCalls' = copyCalls + 1
    /\ IF clipboardPresent
       THEN /\ writes' = [writes EXCEPT !.copiedImage = @ + 1]
            /\ writeCalls' = writeCalls + 1
            /\ UNCHANGED loggedAt
       ELSE /\ loggedAt' = [loggedAt EXCEPT !.copiedImage = clock]
            /\ UNCHANGED <<writes, writeCalls>>
    /\ UNCHANGED <<copied, copiedImage, copyTimeoutRef, copyImageTimeoutRef,
                   timers, timerIds, clock, alive, copiedAt, copyRejections>>
    /\ UNCHANGED <<customFilename, addTimestamp, downloads, previewVars>>
    /\ UNCHANGED <<edits, formVars, qrData, colorVars, imageVars, renderVars, pureVars>>

ArmCopyImageTimeout(ts, ref, id, now) ==
    setTimeout(IF ref # 0 THEN clearTimeout(ts, ref) ELSE ts,
               id, "copiedImage", now + CLIPBOARD_RESET_TIMEOUT)

WriteImageResolved ==
    /\ phase = "copy"
    /\ writes.copiedImage > 0
    /\ writes' = [writes EXCEPT !.copiedImage = @ - 1]
    /\ copiedImage' = IF alive THEN TRUE ELSE copiedImage
    /\ timerIds' = timerIds + 1
    /\ timers' = ArmCopyImageTimeout(timers, copyImageTimeoutRef, timerIds + 1, clock)
    /\ copyImageTimeoutRef' = timerIds + 1
    /\ copiedAt' = [copiedAt EXCEPT !.copiedImage = clock]
    /\ UNCHANGED <<copied, copyTimeoutRef, clock, alive, copyCalls, writeCalls,
                   copyRejections>>
    /\ UNCHANGED loggedAt
    /\ UNCHANGED <<customFilename, addTimestamp, downloads, previewVars>>
    /\ UNCHANGED <<edits, formVars, qrData, colorVars, imageVars, renderVars, pureVars>>

WriteImageRejected ==
    /\ phase = "copy"
    /\ writes.copiedImage > 0
    /\ writes' = [writes EXCEPT !.copiedImage = @ - 1]
    /\ UNCHANGED <<copied, copiedImage, copyTimeoutRef, copyImageTimeoutRef,
                   timers, timerIds, clock, alive, copiedAt, copyCalls,
                   writeCalls, copyRejections>>
    /\ loggedAt' = [loggedAt EXCEPT !.copiedImage = clock]
    /\ UNCHANGED <<customFilename, addTimestamp, downloads, previewVars>>
    /\ UNCHANGED <<edits, formVars, qrData, colorVars, imageVars, renderVars, pureVars>>

CopiedImageTimerFires(t) ==
    /\ phase = "copy"
    /\ t \in timers
    /\ t.flag = "copiedImage"
    /\ t.due <= clock
    /\ timers' = timers \ {t}
    /\ copiedImage' = IF alive THEN FALSE ELSE copiedImage
    /\ UNCHANGED <<copied, copyTimeoutRef, copyImageTimeoutRef, timerIds,
                   writes, clock, alive, copiedAt, loggedAt, copyCalls, writeCalls,
                   copyRejections>>
    /\ UNCHANGED <<customFilename, addTimestamp, downloads, previewVars>>
    /\ UNCHANGED <<edits, formVars, qrData, colorVars, imageVars, renderVars, pureVars>>

\* The image-copy timer is disposed on teardown like the text-copy one.
CleanupCopyImageTimeout(ts, ref) == IF ref # 0 THEN clearTimeout(ts, ref) ELSE ts

\* The cleanup of the mount effect: the timer copyTimeoutRef holds is
\* cleared.
CleanupCopyTimeout(ts, ref) == IF ref # 0 THEN clearTimeout(ts, ref) ELSE ts

\* The component is unmounted: the container leaves the document and the
\* effect cleanups run.
Unmount ==
    /\ phase = "copy"
    /\ alive
    /\ alive' = FALSE
    /\ mounted' = FALSE
    /\ SetRenderState([RenderState EXCEPT !.attempts = ClearContainer(@)])
    /\ timers' = CleanupCopyImageTimeout(CleanupCopyTimeout(timers, copyTimeoutRef),
                                         copyImageTimeoutRef)
    /\ UNCHANGED <<copied, copiedImage, copyTimeoutRef, copyImageTimeoutRef,
                   timerIds, writes, clock, copiedAt, loggedAt, copyCalls, writeCalls,
                   copyRejections>>
    /\ UNCHANGED <<customFilename, addTimestamp, downloads, previewVars>>
    /\ UNCHANGED <<edits, formVars, qrData, colorVars, imageVars, pureVars>>

\* The application with the payload https://a rendered by the Primary and
\* both copy buttons on screen.
InitCopy ==
    /\ activeTab = "url"
    /\ urlInput = <<"a">>
    /\ textInput = <<>>
    /\ contactInfo = initialContactInfo
    /\ qrData = DownloadPayload
    /\ foregroundColor = Color_000000
    /\ backgroundColor = Color_ffffff
    /\ foregroundHex = Color_000000
    /\ backgroundHex = Color_ffffff
    /\ centerImage = NoImage
    /\ centerImageFile = NoImage
    /\ readers = {}
    /\ customFilename = DEFAULT_FILENAME
    /\ addTimestamp = FALSE
    /\ copied = FALSE
    /\ InitClipboard
    /\ InitPreview
    /\ downloads = <<>>
    /\ mounted = TRUE
    /\ attempts = RenderCanvas.attempts
    /\ QRious = RenderCanvas.QRious
    /\ scriptLoads = RenderCanvas.scriptLoads
    /\ edits = 0
    /\ phase = "copy"
    /\ fx = <<>>
    /\ fy = <<>>
    /\ fz = <<>>

NextCopy ==
    \/ \E clipboardPresent \in BOOLEAN : copyToClipboard(clipboardPresent)
    \/ WriteTextResolved
    \/ WriteTextRejected
    \/ \E t \in timers : CopiedTimerFires(t)
    \/ \E clipboardPresent \in BOOLEAN : copyImageToClipboard(clipboardPresent)
    \/ WriteImageResolved
    \/ WriteImageRejected
    \/ \E t \in timers : CopiedImageTimerFires(t)
    \/ Tick
    \/ \E value \in UrlInputs : SetUrlInput(value)
    \/ resetForm
    \/ Unmount

SpecCopy == InitCopy /\ [][NextCopy]_vars

\* ========================================================= properties
\* The lines of a string: its pieces between line feeds.
RECURSIVE SplitLines(_)
SplitLines(s) ==
    IF \A k \in 1 .. Len(s) : s[k] # "\n" THEN <<s>>
    ELSE LET k == CHOOSE n \in 1 .. Len(s) :
                     s[n] = "\n" /\ \A m \in 1 .. n - 1 : s[m] # "\n"
         IN  <<SubSeq(s, 1, k - 1)>> \o SplitLines(SubSeq(s, k + 1, Len(s)))

\* Blank: empty or white space only.
Blank(s) == \A k \in 1 .. Len(s) : s[k] \in Whitespace

GateFieldsEmpty(contact) ==
    /\ contact.firstName = <<>>
    /\ contact.lastName = <<>>
    /\ contact.phone = <<>>
    /\ contact.email = <<>>

HasScheme(s) == startsWith(s, Str_http) \/ startsWith(s, Str_https)

\* C1 as stated: the payload is the empty string exactly when the input of
\* the active mode is blank (url or text empty or white space only, or the
\* four gating contact fields all empty).
C1_PayloadEmptyIffBlank ==
    phase = "run" =>
        (qrData = <<>> <=>
            \/ activeTab = "url" /\ Blank(urlInput)
            \/ activeTab = "text" /\ Blank(textInput)
            \/ activeTab = "contact" /\ GateFieldsEmpty(contactInfo))

\* C1 amended: the payload is the empty string exactly when the mode is url
\* and the URL input is blank, or the mode is text and the text input is the
\* empty string, or the mode is contact and the four gating fields are all
\* empty; white space typed in text mode is a non-empty payload.
C1_PayloadEmptyIffNoInput ==
    phase = "run" =>
        (qrData = <<>> <=>
            \/ activeTab = "url" /\ Blank(urlInput)
            \/ activeTab = "text" /\ textInput = <<>>
            \/ activeTab = "contact" /\ GateFieldsEmpty(contactInfo))

C1_Witness ==
    /\ activeTab = "text"
    /\ textInput = <<" ">>
    /\ qrData = <<" ">>

\* C2: formatUrl prefixes a non-blank input without scheme with https://
\* once, returns an input that starts with http:// or https:// unchanged,
\* and applying it twice gives what applying it once gives.
C2_FormatUrl ==
    /\ phase \in {"once", "twice"} =>
          /\ (~Blank(fx) /\ ~HasScheme(fx)) => fy = Str_https \o fx
          /\ HasScheme(fx) => fy = fx
    /\ phase = "twice" => fz = fy

C2_Witness ==
    /\ phase = "twice"
    /\ fx = <<"h", "t", "t", "p", "/">>
    /\ fy = Str_https \o fx
    /\ fz = fy

\* C3: in contact mode with one of the gating fields filled the payload is
\* the nine lines BEGIN:VCARD, VERSION:3.0, FN, N, ORG, TEL, EMAIL, URL,
\* END:VCARD in this order, separated by single line feeds with none at the
\* end, every field's line present and the values inserted as they are.
C3_VCardLines ==
    (phase = "once" /\ fx.tab = "contact" /\ ~GateFieldsEmpty(fx.contact)) =>
        LET c == fx.contact
        IN  SplitLines(fy) =
              << Str_BEGIN,
                 Str_VERSION,
                 Str_FN \o c.firstName \o <<" ">> \o c.lastName,
                 Str_N \o c.lastName \o <<";">> \o c.firstName \o <<";", ";", ";">>,
                 Str_ORG \o c.organization,
                 Str_TEL \o c.phone,
                 Str_EMAIL \o c.email,
                 Str_URL \o c.url,
                 Str_END >>

C3_Witness ==
    /\ phase = "once"
    /\ fx.tab = "contact"
    /\ fx.contact = [ContactValue EXCEPT !.organization = <<>>]
    /\ Len(SplitLines(fy)) = 9
    /\ SplitLines(fy)[5] = Str_ORG
    /\ SplitLines(fy)[4] = <<"N", ":", "D", ";", ";", "J", ";", ";", ";">>

\* C4: in contact mode the payload is the empty string when firstName,
\* lastName, phone and email are all empty, whatever organization and url
\* hold, and it is the vCard as soon as one of the four is non-empty.
C4_ContactGate ==
    (phase = "once" /\ fx.tab = "contact") =>
        IF GateFieldsEmpty(fx.contact)
        THEN fy = <<>>
        ELSE fy = generateVCard(fx.contact)

C4_Witness ==
    /\ phase = "once"
    /\ fx.tab = "contact"
    /\ GateFieldsEmpty(fx.contact)
    /\ fx.contact.organization # <<>>
    /\ fx.contact.url # <<>>
    /\ fy = <<>>

PrimaryFailed(a) == a.primary \in {"loadfail", "drawfail"}
FallbackAStarted(a) == a.fa \in {"loading", "ok", "fail"}
FallbackBStarted(a) == a.fb \in {"loading", "ok"}

\* C5: within one attempt Fallback A is started only after the Primary
\* failed to load or to draw, Fallback B only after Fallback A's image
\* raised its error event, and nothing is started after an earlier renderer
\* of the attempt succeeded.
C5_RendererOrder ==
    \A k \in 1 .. Len(attempts) :
        LET a == attempts[k]
        IN  /\ FallbackAStarted(a) => PrimaryFailed(a)
            /\ FallbackBStarted(a) => a.fa = "fail" /\ PrimaryFailed(a)
            /\ a.primary \in {"composing", "ok", "hung"} =>
                  a.fa = "none" /\ a.fb = "none"
            /\ a.fa = "ok" => a.fb = "none"

C5_Witness ==
    \E k \in 1 .. Len(attempts) :
        /\ attempts[k].primary = "loadfail"
        /\ attempts[k].fa = "fail"
        /\ attempts[k].fb = "ok"

\* C6: at most one load of the QRious script is ever started.
C6_ScriptLoadedOnce == scriptLoads <= 1

\* C7 as stated: whenever the Primary failed to load or to draw, Fallback A
\* has been started for the attempt's payload.
C7_FailureStartsFallbackA ==
    \A k \in 1 .. Len(attempts) :
        PrimaryFailed(attempts[k]) => FallbackAStarted(attempts[k])

\* C7 amended: a Primary failure is caught inside the render; when the QR
\* container is mounted at that moment Fallback A is started for the
\* attempt's payload, and when the container is not mounted the render
\* ends without starting it.
C7_FailureStartsFallbackAWhileMounted ==
    \A k \in 1 .. Len(attempts) :
        LET a == attempts[k]
        IN  /\ a.primary \in {"start", "loading", "composing", "ok", "hung",
                              "loadfail", "drawfail", "aborted"}
            /\ PrimaryFailed(a) =>
                  IF a.fa = "skipped"
                  THEN ~mounted /\ a.primary = "loadfail" /\ a.el = "none"
                  ELSE FallbackAStarted(a) /\ a.el = "img"

C7_Witness ==
    \E k \in 1 .. Len(attempts) :
        /\ attempts[k].primary = "drawfail"
        /\ attempts[k].fa = "loading"
        /\ attempts[k].attached
        /\ attempts[k].text = qrData

\* C8: a Primary render uses level H when it has a center image and level M
\* when it has none.
C8_LevelFollowsCenterImage ==
    \A k \in 1 .. Len(attempts) :
        attempts[k].level # "" =>
            attempts[k].level = IF attempts[k].img # NoImage THEN "H" ELSE "M"

\* C9: every step that changes the payload or the render configuration
\* (colors, center image) to a payload with content starts one render
\* attempt for the new values, the first change from an empty payload
\* included.
RenderInputsChange ==
    \/ qrData' # qrData
    \/ foregroundColor' # foregroundColor
    \/ backgroundColor' # backgroundColor
    \/ centerImage' # centerImage

C9_EveryChangeStartsOneRender ==
    [][(phase = "run" /\ RenderInputsChange /\ ~Blank(qrData')) =>
          \E drawOk \in BOOLEAN :
              attempts' = Collect(attempts,
                                  generateQRCode(RenderState, qrData',
                                                 foregroundColor', backgroundColor',
                                                 centerImage', TRUE, drawOk).attempts,
                                  1)]_vars

\* C10: once no render is in flight, the QR container is empty exactly when
\* the payload is the empty string.
Settled == \A k \in 1 .. Len(attempts) : ~InFlight(attempts[k])
ContainerEmpty == \A k \in 1 .. Len(attempts) : ~attempts[k].attached

C10_ContainerEmptyIffPayloadEmpty ==
    (phase = "run" /\ Settled) => (ContainerEmpty <=> qrData = <<>>)

\* C11: no operation of the user cancels a render in flight: every attempt
\* in flight before a user operation or a change of the center image is in
\* the same stage after it, at most with its element taken out of the
\* container; so an older attempt can still complete after a newer one.
Detached(a) == [a EXCEPT !.attached = FALSE]

C11_NoCancellation ==
    [][(phase = "run" /\ (edits' # edits \/ centerImage' # centerImage)) =>
          \A k \in 1 .. Len(attempts) :
              InFlight(attempts[k]) =>
                  \E j \in 1 .. Len(attempts') :
                      Detached(attempts'[j]) = Detached(attempts[k])]_vars

\* All renders have settled and the raster on display was drawn by the
\* Primary for a payload or configuration that is not the current one.
C11_Witness ==
    /\ Settled
    /\ mounted
    /\ \E k \in 1 .. Len(attempts) :
          /\ attempts[k].attached
          /\ attempts[k].primary = "ok"
          /\ \/ attempts[k].text # qrData
             \/ attempts[k].fg # foregroundColor
             \/ attempts[k].bg # backgroundColor
             \/ attempts[k].img # centerImage

\* C12: a step of resetForm ends with every entity at its initial value
\* (mode url, inputs and contact fields empty, colors black on white, no
\* center image or file, filename qr-code, timestamp off, copied false,
\* payload empty) and with the raster cleared.
C12_ResetRestoresInitialValues ==
    [][resetForm =>
          /\ activeTab' = "url"
          /\ urlInput' = <<>>
          /\ textInput' = <<>>
          /\ contactInfo' = initialContactInfo
          /\ foregroundColor' = Color_000000
          /\ backgroundColor' = Color_ffffff
          /\ centerImage' = NoImage
          /\ centerImageFile' = NoImage
          /\ customFilename' = DEFAULT_FILENAME
          /\ addTimestamp' = FALSE
          /\ copied' = FALSE
          /\ qrData' = <<>>
          /\ \A k \in 1 .. Len(attempts') : ~attempts'[k].attached]_vars

\* C13: the active mode is always one of url, text and contact, and a step
\* that changes it leaves urlInput, textInput and the six contact fields
\* as they were.
C13_ModeSwitchKeepsInputs ==
    /\ [](activeTab \in Tabs)
    /\ [][activeTab' # activeTab =>
             /\ urlInput' = urlInput
             /\ textInput' = textInput
             /\ \A f \in ContactFields : contactInfo'[f] = contactInfo[f]]_vars

C13_Witness ==
    /\ activeTab = "contact"
    /\ urlInput = <<"a">>
    /\ contactInfo.firstName = <<"J">>
    /\ textInput = <<>>

\* C14: the overlay is drawn whole or not at all: every raster carries
\* either none of the backing circle, ring and logo or all three, and the
\* raster of an attempt whose logo failed to decode carries none.
C14_OverlayAllOrNothing ==
    \A k \in 1 .. Len(attempts) :
        /\ attempts[k].overlay \in {{}, OverlaySteps}
        /\ attempts[k].primary = "hung" => attempts[k].overlay = {}
        /\ attempts[k].overlay # {} =>
              attempts[k].img # NoImage /\ attempts[k].el = "canvas"

C14_Witness ==
    \E k \in 1 .. Len(attempts) :
        /\ attempts[k].primary = "hung"
        /\ attempts[k].img # NoImage
        /\ attempts[k].el = "canvas"
        /\ attempts[k].attached
        /\ attempts[k].overlay = {}

\* C15: a render whose logo failed to decode completes: no attempt is left
\* pending for ever behind addCenterImage.
C15_CompositingFailureCompletes ==
    \A k \in 1 .. Len(attempts) : attempts[k].primary # "hung"

\* C16: on a square canvas of side S the logo is clipped to a circle of
\* diameter D = S * 0.20 centred at (S/2, S/2), over a backing circle of
\* radius D/2 + 8 px and a ring of radius D/2 + 6 px; for S = 400 the clip
\* diameter is 80 px.
C16_OverlayGeometry ==
    phase = "once" =>
        LET D == (Px(fx) * 20) \div 100
        IN  /\ fy.clipDiameter = D
            /\ fy.centre = Px(fx) \div 2
            /\ fy.plateRadius = D \div 2 + Px(8)
            /\ fy.ringRadius = D \div 2 + Px(6)
            /\ fx = 400 => fy.clipDiameter = Px(80)

\* C17: the sanitized base name holds only letters, digits, underscore,
\* hyphen and white space, neither starts nor ends with white space and is
\* never empty (qr-code when nothing remains); without timestamp the
\* filename is the base name followed by .png, and My@Cool#QR! gives
\* MyCoolQR.png.
C17_SanitizedFilename ==
    /\ phase \in {"once", "twice"} =>
          /\ \A k \in 1 .. Len(fy) :
                fy[k] \in WordChars \cup Whitespace \cup {"-"}
          /\ fy # <<>>
          /\ fy[1] \notin Whitespace
          /\ fy[Len(fy)] \notin Whitespace
          /\ (\A k \in 1 .. Len(fx.name) :
                  ~KeepFilenameChar(fx.name[k]) \/ fx.name[k] \in Whitespace) =>
                fy = DEFAULT_FILENAME
    /\ (phase = "twice" /\ ~fx.addTimestamp) =>
          /\ fz = fy \o Str_png
          /\ fx.name = Str_MyCoolQR =>
                fz = <<"M", "y", "C", "o", "o", "l", "Q", "R", ".", "p", "n", "g">>

C17_Witness ==
    /\ phase = "twice"
    /\ fx.name = <<" ", "a", "@">>
    /\ ~fx.addTimestamp
    /\ fz = <<"a", ".", "p", "n", "g">>

\* C18: with the timestamp on, the download filename is the sanitized base
\* name followed by -MMDD-HHMM.png with the month (1 to 12), day, hour (0 to
\* 23) and minute of the clock at the download, two digits each; the empty
\* name on March 5 at 14:07 gives qr-code-0305-1407.png.
TwoDigits(n) == <<Digits[(n \div 10) + 1], Digits[(n % 10) + 1]>>

C18_TimestampedFilename ==
    (phase = "twice" /\ fx.addTimestamp) =>
        /\ fz = fy \o <<"-">> \o TwoDigits(fx.now.month + 1) \o TwoDigits(fx.now.date)
                   \o <<"-">> \o TwoDigits(fx.now.hours) \o TwoDigits(fx.now.minutes)
                   \o Str_png
        /\ Len(fz) = Len(fy) + 14
        /\ (fx.name = <<>> /\ fx.now = March5_1407) =>
              fz = <<"q", "r", "-", "c", "o", "d", "e", "-", "0", "3", "0", "5",
                     "-", "1", "4", "0", "7", ".", "p", "n", "g">>

C18_Witness ==
    /\ phase = "twice"
    /\ fx.addTimestamp
    /\ fx.name = <<>>
    /\ fx.now = March5_1407
    /\ fz = <<"q", "r", "-", "c", "o", "d", "e", "-", "0", "3", "0", "5",
              "-", "1", "4", "0", "7", ".", "p", "n", "g">>

\* C19: a download from a canvas whose PNG blob encoding failed (toBlob
\* threw or delivered no blob) has gone on to the data-URI download of the
\* same canvas under the same filename.
C19_BlobFailureFallsBackToDataUrl ==
    \A i \in 1 .. Len(downloads) :
        LET d == downloads[i]
        IN  (d.raster = "canvas" /\ d.blob \in {"threw", "null"}) =>
                /\ d.dataUrl # "none"
                /\ d.dataUrl = "ok" => d.via = "dataurl"

\* C20: a download from a canvas or from a fallback image that has ended
\* without a download being triggered has shown the 'save image as'
\* message once.
C20_FailedDownloadAlertsOnce ==
    \A i \in 1 .. Len(downloads) :
        LET d == downloads[i]
        IN  (d.raster \in {"canvas", "img"} /\ d.stage = "done" /\ d.via = "none") =>
                d.alerts = 1

\* --------------------------------------------------- clipboard claims
PendingTimers(flag) == {t \in timers : t.flag = flag}

\* C21: a successful text copy sets copied; while the hook is mounted the
\* flag is never still set later than 2000 ms after the latest successful
\* copy, and it goes from true to false only by resetForm or at exactly
\* 2000 ms after that copy (not earlier).
C21_CopiedClearsAfterTimeout ==
    /\ [](alive /\ copied =>
             /\ copiedAt.copied >= 0
             /\ clock <= copiedAt.copied + CLIPBOARD_RESET_TIMEOUT)
    /\ [][(WriteTextResolved /\ alive) => copied']_vars
    /\ [][(copied /\ ~copied') =>
             \/ resetForm
             \/ clock = copiedAt.copied + CLIPBOARD_RESET_TIMEOUT]_vars

\* A copy made after the clock started was cleared by its timer, with no
\* reset and no other copy in the behaviour.
C21_Witness ==
    /\ alive
    /\ edits = 0
    /\ copyCalls = 1
    /\ copiedAt.copied > 0
    /\ ~copied
    /\ PendingTimers("copied") = {}
    /\ clock = copiedAt.copied + CLIPBOARD_RESET_TIMEOUT

\* C22: at most one copied-reset timer is pending; a successful copy
\* leaves exactly one, newly armed and due 2000 ms later, whatever was
\* pending before; and the flag is never cleared by a timer less than
\* 2000 ms after the most recent successful copy.
C22_OnePendingTimer ==
    /\ [](Cardinality(PendingTimers("copied")) <= 1)
    /\ [][WriteTextResolved =>
             /\ PendingTimers("copied") \cap PendingTimers("copied")' = {}
             /\ \E t \in timers' :
                   /\ PendingTimers("copied")' = {t}
                   /\ t.due = clock + CLIPBOARD_RESET_TIMEOUT]_vars
    /\ [][(\E t \in timers : CopiedTimerFires(t)) =>
             clock >= copiedAt.copied + CLIPBOARD_RESET_TIMEOUT]_vars

\* Two text copies succeeded within 2000 ms of mounting, so the second
\* found the timer of the first pending.
C22_Witness ==
    /\ alive
    /\ edits = 0
    /\ copyCalls = 2
    /\ writeCalls = 2
    /\ writes.copied = 0
    /\ copyTimeoutRef = 2
    /\ copyImageTimeoutRef = 0
    /\ loggedAt.copied = -1
    /\ clock < CLIPBOARD_RESET_TIMEOUT
    /\ Cardinality(PendingTimers("copied")) = 1

\* C23: a failed text copy (write rejected, or clipboard API absent)
\* leaves the copied flag, the pending timers and the timeout ref as they
\* were, starts no further write, and does not reject to its caller.
C23_FailedCopyChangesNothing ==
    /\ [][WriteTextRejected =>
             /\ copied' = copied
             /\ timers' = timers
             /\ copyTimeoutRef' = copyTimeoutRef
             /\ writeCalls' = writeCalls
             /\ writes'.copied = writes.copied - 1
             /\ copyRejections' = copyRejections]_vars
    /\ [][copyToClipboard(FALSE) =>
             /\ copied' = copied
             /\ timers' = timers
             /\ copyTimeoutRef' = copyTimeoutRef
             /\ writeCalls' = writeCalls
             /\ writes' = writes
             /\ copyRejections' = copyRejections]_vars
    /\ [](copyRejections = 0)

\* A text copy failed after an earlier one had succeeded, and the flag is
\* still set with its timer pending.
C23_Witness ==
    /\ alive
    /\ copied
    /\ copiedAt.copied >= 0
    /\ loggedAt.copied > copiedAt.copied
    /\ \E t \in timers :
          /\ PendingTimers("copied") = {t}
          /\ t.due = copiedAt.copied + CLIPBOARD_RESET_TIMEOUT

TextCopyStep ==
    \/ \E clipboardPresent \in BOOLEAN : copyToClipboard(clipboardPresent)
    \/ WriteTextResolved
    \/ WriteTextRejected
    \/ \E t \in timers : CopiedTimerFires(t)

ImageCopyStep ==
    \/ \E clipboardPresent \in BOOLEAN : copyImageToClipboard(clipboardPresent)
    \/ WriteImageResolved
    \/ WriteImageRejected
    \/ \E t \in timers : CopiedImageTimerFires(t)

\* C24: a successful image copy sets copiedImage and leaves exactly one
\* image timer pending, due 2000 ms later; no step of a text copy changes
\* copiedImage, its timer or its ref, and no step of an image copy changes
\* copied, its timer or its ref.
C24_FlagsIndependent ==
    /\ [][(WriteImageResolved /\ alive) =>
             /\ copiedImage'
             /\ \E t \in timers' :
                   /\ PendingTimers("copiedImage")' = {t}
                   /\ t.due = clock + CLIPBOARD_RESET_TIMEOUT]_vars
    /\ [](Cardinality(PendingTimers("copiedImage")) <= 1)
    /\ [][TextCopyStep =>
             /\ copiedImage' = copiedImage
             /\ copyImageTimeoutRef' = copyImageTimeoutRef
             /\ PendingTimers("copiedImage")' = PendingTimers("copiedImage")]_vars
    /\ [][ImageCopyStep =>
             /\ copied' = copied
             /\ copyTimeoutRef' = copyTimeoutRef
             /\ PendingTimers("copied")' = PendingTimers("copied")]_vars

\* Both flags are set, each with its own timer, the two due at different
\* times.
C24_Witness ==
    /\ alive
    /\ copied
    /\ copiedImage
    /\ \E t, u \in timers :
          /\ PendingTimers("copied") = {t}
          /\ PendingTimers("copiedImage") = {u}
          /\ t.due < u.due

\* C25: once the component is unmounted no copied-reset timer is pending
\* (so none can fire), also when a copy was awaiting its clipboard write at
\* the unmount.
C25_NoTimerAfterUnmount == ~alive => PendingTimers("copied") = {}

\* ----------------------------------------------------- hex input claim
SixHexDigits(s) ==
    /\ Len(s) = 7
    /\ Head(s) = "#"
    /\ \A i \in 1 .. 6 : Tail(s)[i] \in HexDigits

\* C26: a hex text-input handler sets its color to the value typed when
\* that value is '#' followed by exactly six hexadecimal digits of either
\* case and leaves the color as it was otherwise, and it never touches the
\* other color; colors set only through these handlers are valid.
C26_HexHandlerAcceptsOnlyValid ==
    /\ [][\A hex \in HexInputs :
             /\ handleForegroundHexChange(hex) =>
                   /\ foregroundColor' = IF SixHexDigits(hex) THEN hex ELSE foregroundColor
                   /\ backgroundColor' = backgroundColor
             /\ handleBackgroundHexChange(hex) =>
                   /\ backgroundColor' = IF SixHexDigits(hex) THEN hex ELSE backgroundColor
                   /\ foregroundColor' = foregroundColor]_vars
    /\ [](SixHexDigits(foregroundColor) /\ SixHexDigits(backgroundColor))

\* A valid value in mixed case was accepted and a later invalid value left
\* it in place.
C26_Witness ==
    /\ foregroundColor = <<"#", "1", "2", "a", "B", "9", "f">>
    /\ foregroundHex = <<"#", "A", "B", "C">>
    /\ backgroundColor = Color_ffffff

\* -------------------------------------------------------- locale claim
\* C27: for every input the result is a supported locale key: the input
\* when it is a key of TRANSLATIONS, else the first key whose language
\* part (before its '-') equals the input's part before the first '-',
\* else 'en-US'.
C27_FindMatchingLocale ==
    phase = "once" =>
        /\ fy \in {Locale_enUS, Locale_esES}
        /\ fy = IF fx \in {Locale_enUS, Locale_esES} THEN fx
                ELSE IF BeforeDash(fx) = BeforeDash(Locale_enUS) THEN Locale_enUS
                ELSE IF BeforeDash(fx) = BeforeDash(Locale_esES) THEN Locale_esES
                ELSE Locale_enUS

\* ------------------------------------------------------ fallback claim
\* C28: in every render attempt Fallback B is requested at most once (and
\* Fallback A, requested when the attempt's image is created, never again):
\* a failure of Fallback B starts no further load.
C28_FallbackRequestsBounded ==
    \A i \in 1 .. Len(attempts) : attempts[i].bReq <= 1

\* -------------------------------------------------- center image claim
\* C29: the center image and the center image file are consistent: a
\* center image is present only together with the file of the same upload
\* (so it stays absent after removeCenterImage or resetForm until a new
\* upload is started), and with no decode pending a file is present only
\* together with its image.
C29_ImageAndFileConsistent ==
    /\ centerImage # NoImage => centerImageFile = centerImage
    /\ (readers = {} /\ centerImageFile # NoImage) => centerImage = centerImageFile

\* ----------------------------------------------- filename preview claim
\* C30: at every moment the filename shown next to the timestamp checkbox
\* is the filename a download started at that moment would use, with the
\* stamp of the current clock when the timestamp is on.
C30_PreviewIsDownloadFilename ==
    (IF addTimestamp THEN timestampedFilenamePreview ELSE filenamePreview)
        = DownloadFilename(customFilename, addTimestamp, wallClock)

====
